---- MODULE Spec2Model ----
(***************************************************************************)
(* Model of py_ffmpeg's VideoEncoder (src/src/py_ffmpeg/encoder.py) and of *)
(* the FFmpegContext it drives (src/src/py_ffmpeg/context.py).             *)
(*                                                                         *)
(* An encoder instance serves one conversion attempt: start() is called    *)
(* once on it.  Three callers act on the instance:                         *)
(*   - the thread that runs start() (program counter pc),                  *)
(*   - the thread that runs cancel() (program counter cpc),                *)
(*   - a caller of update_encoding_params().                               *)
(* The transcoding process is a fourth party: it opens its output file,    *)
(* writes diagnostic lines and progress ticks, and exits.                  *)
(* Each statement of start() and cancel() that reads or writes state       *)
(* shared between the two threads is a step of its own.                    *)
(*                                                                         *)
(* The computations that depend on their arguments only have              *)
(* specifications of their own, which draw the arguments in their initial  *)
(* state: TickSpec (the figures on_progress gives the progress callback),  *)
(* RateSpec (VideoStreamInfo.frame_rate), ProbeSpec (MediaInfo.__init__).  *)
(* StreamSpec (the properties of one stream or format record) and          *)
(* ContextSpec (FFmpegContext.input / probe over FFprobe.probe).           *)
(* ReentrantSpec lets a second caller enter start() on the same instance.  *)
(***************************************************************************)
EXTENDS Integers, Sequences, FiniteSets, TLC

(* ---------------------------------------------------------------- bounds *)
MaxCancels  == 1      \* calls of cancel()
MaxUpdates  == 1      \* calls of update_encoding_params()
MaxLines    == 2      \* diagnostic lines the process writes in an attempt
MaxTicks    == 1      \* progress ticks the process writes in an attempt

(* --------------------------------------------------------------- domains *)
\* EncodingState
IDLE       == "IDLE"
PREPARING  == "PREPARING"
ENCODING   == "ENCODING"
CANCELLING == "CANCELLING"
CANCELLED  == "CANCELLED"
COMPLETED  == "COMPLETED"
ERROR      == "ERROR"
EncodingState == {IDLE, PREPARING, ENCODING, CANCELLING, CANCELLED, COMPLETED, ERROR}

\* exit codes of the transcoding process
ExitCodes == {0, 1}

\* the classes of exception start() can meet
ValidationException == "ValidationException"
FFmpegError         == "FFmpegError"
OtherException      == "Exception"

\* messages handed to the finished-callback; the exit-code message is a pair
\* that carries the code it embeds
MsgValidation == <<"Erreur de validation">>
MsgFFmpeg     == <<"Erreur lors de l'execution de FFmpeg">>
MsgUnexpected == <<"Erreur inattendue lors de l'encodage">>
MsgCancelled  == <<"Encodage annule par l'utilisateur">>
MsgSuccess    == <<"Encodage termine avec succes !">>
MsgExitCode(rc) == <<"Erreur d'encodage (code)", rc>>

\* diagnostic lines: whether the line holds the marker "options:", and the
\* pieces that follow it, each piece already cut at its "=" signs
PlainLine   == [marker |-> FALSE, toks |-> <<>>]
OptionsLine == [marker |-> TRUE,  toks |-> << <<"cabac", "1">>, <<"ref", "3">> >>]
BadLine     == [marker |-> TRUE,  toks |-> << <<"cabac", "1">>, <<"ref">> >>]
Lines == {PlainLine, OptionsLine, BadLine}

\* option maps given to update_encoding_params
InitialParams == [crf |-> "23"]
NewParams == { [crf |-> "18"], [preset |-> "fast"] }

NoOptions == [none |-> "none"]

VARIABLES
    state,            \* self._current_state
    cancelled,        \* self._cancelled
    error_details,    \* self._error_details
    encoding_params,  \* self._encoding_params
    options_used,     \* self._options_used
    has_ffmpeg,       \* self._ffmpeg is not None
    media_info,       \* self._ffmpeg._media_info: "none", "video", "novideo"
    executed,         \* self._ffmpeg._executed
    terminated,       \* self._ffmpeg._terminated
    start_time,       \* self._ffmpeg._start_time is not None
    listeners,        \* events of self._ffmpeg that have a handler attached
    proc,             \* self._ffmpeg._process: "none", "running", "exited"
    returncode,       \* self._ffmpeg._process.returncode
    opened,           \* the process has opened its output file
    outfile,          \* the output path exists on disk
    input_exists,     \* the input path exists on disk
    on_progress_cb,   \* a progress callback is registered
    on_finished_cb,   \* a finished-callback is registered
    pc,               \* where the thread in start() is
    cpc,              \* where the thread in cancel() is
    exc,              \* the exception start() is handling
    branch,           \* the branch _handle_processing_result took
    cancels, updates, lines, ticks,
    \* what an observer of the instance has seen during the attempt
    finished,         \* the finished-callback's invocations
    history,          \* the states taken, the one at the call of start() first
    probes,           \* spawns of the inspection binary
    spawns,           \* spawns of the transcoding binary
    signals,          \* termination requests sent to the process
    progress,         \* progress notifications: "tick" or "final"
    started,          \* invocations of the started-callback
    cancel_hit,       \* cancel() has set the cancellation flag in this attempt
    last_update,      \* outcome of the last update_encoding_params()
    marker_seen,      \* the process has written a line holding "options:"
    late_marker,      \* it has written one after on_stderr had captured the options
    cancel_at,        \* where the instance was when cancel() was last called
    \* a progress tick and what on_progress hands the progress callback for it
    tick, tick_out,
    \* an r_frame_rate text and the frame_rate computed from it
    rate_text, rate_out,
    \* a probe report and the MediaInfo built from it
    probe_data, probed,
    \* the raw data of one video stream and the properties read from it
    raw_data, props,
    \* a process context: its input files, its cached probe, its probe calls
    ctx,
    \* a second caller of start(): where it is, and the process of its context
    pc2, proc2

encoder == <<state, cancelled, error_details, encoding_params, options_used>>
context == <<has_ffmpeg, media_info, executed, terminated, start_time, listeners>>
process == <<proc, returncode, opened>>
disk    == <<outfile, input_exists>>
setup   == <<on_progress_cb, on_finished_cb>>
control == <<pc, cpc, exc, branch>>
counts  == <<cancels, updates, lines, ticks>>
seen    == <<finished, history, probes, spawns, signals, progress, started,
             cancel_hit, last_update>>
ghost   == <<marker_seen, late_marker, cancel_at>>
calc    == <<tick, tick_out, rate_text, rate_out, probe_data, probed,
             raw_data, props, ctx>>
second  == <<pc2, proc2>>
vars    == <<encoder, context, process, disk, setup, control, counts, seen, ghost,
             calc, second>>

\* the instance as its constructor leaves it
Constructed ==
    /\ state = IDLE
    /\ cancelled = FALSE
    /\ error_details = <<"">>
    /\ encoding_params = InitialParams
    /\ options_used = NoOptions
    /\ has_ffmpeg = FALSE
    /\ media_info = "none"
    /\ executed = FALSE
    /\ terminated = FALSE
    /\ start_time = FALSE
    /\ listeners = {}
    /\ proc = "none"
    /\ returncode = -1
    /\ opened = FALSE
    /\ outfile = FALSE
    /\ input_exists \in BOOLEAN
    /\ on_progress_cb \in BOOLEAN
    /\ on_finished_cb \in BOOLEAN
    /\ pc = "idle"
    /\ cpc = "idle"
    /\ exc = "none"
    /\ branch = "none"
    /\ cancels = 0 /\ updates = 0 /\ lines = 0 /\ ticks = 0
    /\ finished = <<>>
    /\ history = <<IDLE>>
    /\ probes = 0
    /\ spawns = 0
    /\ signals = <<>>
    /\ progress = <<>>
    /\ started = 0
    /\ cancel_hit = FALSE
    /\ last_update = "none"
    /\ marker_seen = FALSE
    /\ late_marker = FALSE
    /\ cancel_at = [state |-> "none", phase |-> "none"]

Nothing == [none |-> TRUE]

\* no tick, text or report under computation, no second caller
NoCalc   == tick = Nothing /\ tick_out = Nothing
            /\ rate_text = Nothing /\ rate_out = Nothing
            /\ probe_data = Nothing /\ probed = Nothing
            /\ raw_data = Nothing /\ props = Nothing /\ ctx = Nothing
NoSecond == pc2 = "idle" /\ proc2 = "none"

Init == Constructed /\ NoCalc /\ NoSecond

(* ------------------------------------------------------ helper operators *)
\* _set_state: the state changes, and the state-changed callback fires, only
\* when the new state differs from the current one
set_state(new_state) ==
    /\ state' = new_state
    /\ history' = IF state # new_state THEN Append(history, new_state) ELSE history

\* start() without its last except clause
Caught_typed_only(kind) == kind \in {ValidationException, FFmpegError}

\* the except clauses of start(): which exceptions it catches
Caught(kind) == kind \in {ValidationException, FFmpegError, OtherException}

\* the except clauses of start(): the message each one reports
Message(kind) ==
    CASE kind = ValidationException -> MsgValidation
      [] kind = FFmpegError         -> MsgFFmpeg
      [] OTHER                      -> MsgUnexpected

\* an exception raised in the try block of start()
Raise(kind) ==
    /\ exc' = kind
    /\ pc' = IF Caught(kind) THEN "error" ELSE "raised"

\* one invocation of the finished-callback, when one is registered
Notify(success, msg, info) ==
    finished' = IF on_finished_cb
                THEN Append(finished, [success |-> success, msg |-> msg, info |-> info])
                ELSE finished

is_encoding   == has_ffmpeg /\ executed
is_cancelling == has_ffmpeg /\ cancelled /\ executed

\* cancel() refused only on an encoder that was never started
CancelAllowed_unless_idle(s) == s # IDLE

\* where start() is when cancel() is called: not running, blocked in execute()
\* with the process alive, or elsewhere in start()
Phase ==
    IF pc \in {"idle", "returned", "raised"} THEN "outside"
    ELSE IF pc = "executing" /\ proc = "running" THEN "running"
    ELSE "inside"

\* cancel() goes on only from these states
CancelAllowed(s) == s \in {ENCODING, PREPARING}

\* dict(x.split("=") for x in ...): every piece must have exactly two parts
WellFormed(toks) == \A i \in 1..Len(toks) : Len(toks[i]) = 2

\* the dict built from the pieces: a later piece overrides an earlier one
ParseOptions(toks) ==
    [k \in {toks[i][1] : i \in 1..Len(toks)} |->
        LET last == CHOOSE i \in 1..Len(toks) :
                        /\ toks[i][1] = k
                        /\ \A j \in 1..Len(toks) : toks[j][1] = k => j <= i
        IN toks[last][2]]

\* dict.update
Merge(old, new) ==
    [k \in DOMAIN old \cup DOMAIN new |-> IF k \in DOMAIN new THEN new[k] ELSE old[k]]

\* how execute() ends once the process has exited: it returns, or raises
\* FFmpegError for a process that failed without having been terminated
ExecuteOutcomes(rc, term) ==
    IF rc = 0 \/ term THEN {"return"} ELSE {"return", FFmpegError}

(* ------------------------------------------------------- start()'s steps *)
\* start(), line 185
start ==
    /\ pc = "idle"
    /\ cancelled' = FALSE
    /\ pc' = "prep"
    /\ UNCHANGED <<calc, second, ghost, state, error_details, encoding_params, options_used, context,
                   process, disk, setup, cpc, exc, branch, counts, seen>>

\* start(), line 186
start_preparing ==
    /\ pc = "prep"
    /\ set_state(PREPARING)
    /\ pc' = "validate"
    /\ UNCHANGED <<calc, second, ghost, cancelled, error_details, encoding_params, options_used, context,
                   process, disk, setup, cpc, exc, branch, counts, finished, probes,
                   spawns, signals, progress, started, cancel_hit, last_update>>

validate_input ==
    /\ pc = "validate"
    /\ IF input_exists
       THEN pc' = "setup" /\ exc' = exc
       ELSE Raise(ValidationException)
    /\ UNCHANGED <<calc, second, ghost, encoder, context, process, disk, setup, cpc, branch, counts, seen>>

\* MediaInfo.has_video_stream of a probe report
has_video_stream(report) == report = "video"

\* an attribute lookup on the context fails for every value but None
getattr_fails_falsy(found, value) == ~found \/ value = FALSE

\* FFmpegContext.__getattr__: AttributeError when getinfo answers None only
getattr_fails(found, value) == ~found

\* the context is built and its first input probed; self._ffmpeg is assigned
\* only when the probe has returned
setup_ffmpeg ==
    /\ pc = "setup"
    /\ probes' = probes + 1
    /\ \E report \in {"video", "novideo", "failed"} :
         IF report = "failed"
         THEN /\ Raise(OtherException)
              /\ UNCHANGED <<context, process>>
         ELSE /\ has_ffmpeg' = TRUE
              /\ media_info' = report
              /\ executed' = FALSE /\ terminated' = FALSE /\ start_time' = FALSE
              /\ listeners' = {}
              /\ proc' = "none" /\ returncode' = -1 /\ opened' = FALSE
              /\ IF getattr_fails(TRUE, has_video_stream(report))
                 THEN Raise(OtherException)
                 ELSE IF has_video_stream(report)
                 THEN pc' = "callbacks" /\ exc' = exc
                 ELSE Raise(ValidationException)
    /\ UNCHANGED <<calc, second, ghost, encoder, disk, setup, cpc, branch, counts, finished, history,
                   spawns, signals, progress, started, cancel_hit, last_update>>

\* the diagnostic handler left out
setup_ffmpeg_callbacks_progress_only ==
    /\ pc = "callbacks"
    /\ listeners' = IF on_progress_cb THEN {"progress"} ELSE {}
    /\ pc' = "execute"
    /\ UNCHANGED <<calc, second, ghost, encoder, has_ffmpeg, media_info, executed, terminated, start_time,
                   process, disk, setup, cpc, exc, branch, counts, seen>>

\* both handlers subscribed whether or not a progress callback is registered
setup_ffmpeg_callbacks_unconditional ==
    /\ pc = "callbacks"
    /\ listeners' = {"progress", "stderr"}
    /\ pc' = "execute"
    /\ UNCHANGED <<calc, second, ghost, encoder, has_ffmpeg, media_info, executed, terminated, start_time,
                   process, disk, setup, cpc, exc, branch, counts, seen>>

setup_ffmpeg_callbacks ==
    /\ pc = "callbacks"
    /\ listeners' = IF on_progress_cb THEN {"progress", "stderr"} ELSE {}
    /\ pc' = "execute"
    /\ UNCHANGED <<calc, second, ghost, encoder, has_ffmpeg, media_info, executed, terminated, start_time,
                   process, disk, setup, cpc, exc, branch, counts, seen>>

\* execute that spawns the process without recording the start time
execute_unrecorded ==
    /\ pc = "execute"
    /\ start_time' = start_time
    /\ \E ok \in BOOLEAN :
         IF ok
         THEN /\ proc' = "running" /\ executed' = TRUE
              /\ spawns' = spawns + 1
              /\ pc' = "executing" /\ exc' = exc
         ELSE /\ Raise(OtherException)
              /\ UNCHANGED <<proc, executed, spawns>>
    /\ UNCHANGED <<calc, second, ghost, encoder, has_ffmpeg, media_info, terminated, listeners, returncode,
                   opened, disk, setup, cpc, branch, counts, finished, history, probes,
                   signals, progress, started, cancel_hit, last_update>>

\* FFmpegContext.execute: the start time is recorded, then the process spawned
execute ==
    /\ pc = "execute"
    /\ start_time' = TRUE
    /\ \E ok \in BOOLEAN :
         IF ok
         THEN /\ proc' = "running" /\ executed' = TRUE
              /\ spawns' = spawns + 1
              /\ pc' = "executing" /\ exc' = exc
         ELSE /\ Raise(OtherException)
              /\ UNCHANGED <<proc, executed, spawns>>
    /\ UNCHANGED <<calc, second, ghost, encoder, has_ffmpeg, media_info, terminated, listeners, returncode,
                   opened, disk, setup, cpc, branch, counts, finished, history, probes,
                   signals, progress, started, cancel_hit, last_update>>

\* an exception in a handler: the process is stopped and execute() raises it
HandlerRaises ==
    /\ proc' = "exited" /\ returncode' = 1
    /\ executed' = FALSE
    /\ Raise(OtherException)

\* on_stderr that stays attached after it has captured the options
on_stderr_attached ==
    /\ pc = "executing" /\ proc = "running"
    /\ lines < MaxLines
    /\ lines' = lines + 1
    /\ \E line \in Lines :
       /\ marker_seen' = (marker_seen \/ line.marker)
       /\ late_marker' = (late_marker \/ (line.marker /\ started > 0))
       /\ IF "stderr" \in listeners /\ line.marker
         THEN IF WellFormed(line.toks)
              THEN /\ options_used' = ParseOptions(line.toks)
                   /\ set_state(ENCODING)
                   /\ started' = started + 1
                   /\ listeners' = listeners
                   /\ UNCHANGED <<proc, returncode, executed, pc, exc>>
              ELSE /\ HandlerRaises
                   /\ UNCHANGED <<options_used, state, history, started, listeners>>
         ELSE UNCHANGED <<options_used, state, history, started, listeners, proc,
                          returncode, executed, pc, exc>>
    /\ UNCHANGED <<calc, second, cancel_at, cancelled, error_details, encoding_params, has_ffmpeg, media_info,
                   terminated, start_time, opened, disk, setup, cpc, branch,
                   cancels, updates, ticks, finished, probes, spawns, signals,
                   progress, cancel_hit, last_update>>

\* the process writes one diagnostic line; on_stderr handles it when attached
on_stderr ==
    /\ pc = "executing" /\ proc = "running"
    /\ lines < MaxLines
    /\ lines' = lines + 1
    /\ \E line \in Lines :
       /\ marker_seen' = (marker_seen \/ line.marker)
       /\ late_marker' = (late_marker \/ (line.marker /\ started > 0))
       /\ IF "stderr" \in listeners /\ line.marker
         THEN IF WellFormed(line.toks)
              THEN /\ options_used' = ParseOptions(line.toks)
                   /\ set_state(ENCODING)
                   /\ started' = started + 1
                   /\ listeners' = listeners \ {"stderr"}
                   /\ UNCHANGED <<proc, returncode, executed, pc, exc>>
              ELSE /\ HandlerRaises
                   /\ UNCHANGED <<options_used, state, history, started, listeners>>
         ELSE UNCHANGED <<options_used, state, history, started, listeners, proc,
                          returncode, executed, pc, exc>>
    /\ UNCHANGED <<calc, second, cancel_at, cancelled, error_details, encoding_params, has_ffmpeg, media_info,
                   terminated, start_time, opened, disk, setup, cpc, branch,
                   cancels, updates, ticks, finished, probes, spawns, signals,
                   progress, cancel_hit, last_update>>

\* the process writes one progress tick; on_progress handles it
on_progress ==
    /\ pc = "executing" /\ proc = "running"
    /\ "progress" \in listeners
    /\ ticks < MaxTicks
    /\ ticks' = ticks + 1
    /\ IF cancelled
       THEN UNCHANGED <<progress, proc, returncode, executed, pc, exc>>
       ELSE \E fails \in BOOLEAN :
              IF fails
              THEN HandlerRaises /\ progress' = progress
              ELSE /\ progress' = Append(progress, "tick")
                   /\ UNCHANGED <<proc, returncode, executed, pc, exc>>
    /\ UNCHANGED <<calc, second, ghost, encoder, has_ffmpeg, media_info, terminated, start_time, listeners,
                   opened, disk, setup, cpc, branch,  cancels, updates, lines,
                   finished, history, probes, spawns, signals, started, cancel_hit,
                   last_update>>

\* the process opens (creates or overwrites) its output file
ProcessOpensOutput ==
    /\ proc = "running" /\ ~opened
    /\ opened' = TRUE /\ outfile' = TRUE
    /\ UNCHANGED <<calc, second, ghost, encoder, context, proc, returncode, input_exists, setup, control,
                   counts, seen>>

\* the process exits
ProcessExits ==
    /\ proc = "running"
    /\ proc' = "exited"
    /\ \E rc \in ExitCodes : returncode' = rc
    /\ UNCHANGED <<calc, second, ghost, encoder, context, opened, disk, setup, control, counts, seen>>

\* execute() comes back once the process has exited
execute_returns ==
    /\ pc = "executing" /\ proc = "exited"
    /\ executed' = FALSE
    /\ \E outcome \in ExecuteOutcomes(returncode, terminated) :
         IF outcome = "return"
         THEN pc' = "result" /\ exc' = exc
         ELSE Raise(FFmpegError)
    /\ UNCHANGED <<calc, second, ghost, encoder, has_ffmpeg, media_info, terminated, start_time, listeners,
                   process, disk, setup, cpc, branch, counts, seen>>

\* _handle_processing_result: the tests of lines 272, 276 and 286
classify_result ==
    /\ pc = "result"
    /\ branch' = IF cancelled THEN "cancelled"
                 ELSE IF returncode = 0 THEN "completed" ELSE "error"
    /\ pc' = "classified"
    /\ UNCHANGED <<calc, second, ghost, encoder, context, process, disk, setup, cpc, exc, counts, seen>>

\* lines 273-275
result_cancelled ==
    /\ pc = "classified" /\ branch = "cancelled"
    /\ set_state(CANCELLED)
    /\ Notify(FALSE, MsgCancelled, FALSE)
    /\ pc' = "returned"
    /\ UNCHANGED <<calc, second, ghost, cancelled, error_details, encoding_params, options_used, context,
                   process, disk, setup, cpc, exc, branch, counts, probes, spawns,
                   signals, progress, started, cancel_hit, last_update>>

\* lines 277-285: the output is probed while the callback's arguments are built
result_completed ==
    /\ pc = "classified" /\ branch = "completed"
    /\ set_state(COMPLETED)
    /\ progress' = IF on_progress_cb THEN Append(progress, "final") ELSE progress
    /\ IF ~on_finished_cb
       THEN pc' = "returned" /\ UNCHANGED <<exc, finished, probes>>
       ELSE IF ~outfile
       THEN Raise(OtherException) /\ UNCHANGED <<finished, probes>>
       ELSE /\ probes' = probes + 1
            /\ \E ok \in BOOLEAN :
                 IF ok
                 THEN Notify(TRUE, MsgSuccess, TRUE) /\ pc' = "returned" /\ exc' = exc
                 ELSE Raise(OtherException) /\ finished' = finished
    /\ UNCHANGED <<calc, second, ghost, cancelled, error_details, encoding_params, options_used, context,
                   process, disk, setup, cpc, branch, counts, spawns, signals, started,
                   cancel_hit, last_update>>

\* the branch of lines 287-290 that also removes the partial output
result_error_cleanup ==
    /\ pc = "classified" /\ branch = "error"
    /\ set_state(ERROR)
    /\ Notify(FALSE, MsgExitCode(returncode), FALSE)
    /\ outfile' = FALSE
    /\ pc' = "returned"
    /\ UNCHANGED <<calc, second, ghost, cancelled, error_details, encoding_params, options_used, context,
                   process, input_exists, setup, cpc, exc, branch, counts, probes, spawns,
                   signals, progress, started, cancel_hit, last_update>>

\* lines 287-290
result_error ==
    /\ pc = "classified" /\ branch = "error"
    /\ set_state(ERROR)
    /\ Notify(FALSE, MsgExitCode(returncode), FALSE)
    /\ pc' = "returned"
    /\ UNCHANGED <<calc, second, ghost, cancelled, error_details, encoding_params, options_used, context,
                   process, disk, setup, cpc, exc, branch, counts, probes, spawns,
                   signals, progress, started, cancel_hit, last_update>>

\* _handle_error that records the message and tells nobody
handle_error_silent ==
    /\ pc = "error"
    /\ error_details' = Message(exc)
    /\ pc' = "returned"
    /\ UNCHANGED <<calc, second, ghost, state, cancelled, encoding_params, options_used, context, process,
                   disk, setup, cpc, exc, branch, counts, seen>>

\* _handle_error, reached from the except clauses of start()
handle_error ==
    /\ pc = "error"
    /\ error_details' = Message(exc)
    /\ Notify(FALSE, Message(exc), FALSE)
    /\ pc' = "returned"
    /\ UNCHANGED <<calc, second, ghost, state, cancelled, encoding_params, options_used, context, process,
                   disk, setup, cpc, exc, branch, counts, history, probes, spawns,
                   signals, progress, started, cancel_hit, last_update>>

(* ------------------------------------------------------ cancel()'s steps *)
\* lines 293-294
cancel ==
    /\ cpc = "idle"
    /\ cancels < MaxCancels
    /\ cancels' = cancels + 1
    /\ cpc' = IF CancelAllowed(state) THEN "flag" ELSE "idle"
    /\ cancel_at' = [state |-> state, phase |-> Phase]
    /\ UNCHANGED <<calc, second, marker_seen, late_marker, encoder, context, process, disk, setup, pc, exc, branch,
                   updates, lines, ticks, seen>>

\* line 296
cancel_set_flag ==
    /\ cpc = "flag"
    /\ cancelled' = TRUE
    /\ cancel_hit' = TRUE
    /\ cpc' = "state"
    /\ UNCHANGED <<calc, second, ghost, state, error_details, encoding_params, options_used, context,
                   process, disk, setup, pc, exc, branch, counts, finished, history,
                   probes, spawns, signals, progress, started, last_update>>

\* line 297
cancel_set_state ==
    /\ cpc = "state"
    /\ set_state(CANCELLING)
    /\ cpc' = "poll"
    /\ UNCHANGED <<calc, second, ghost, cancelled, error_details, encoding_params, options_used, context,
                   process, disk, setup, pc, exc, branch, counts, finished, probes,
                   spawns, signals, progress, started, cancel_hit, last_update>>

\* lines 298-299: is there a process, and is it still alive
cancel_poll ==
    /\ cpc = "poll"
    /\ cpc' = IF has_ffmpeg /\ proc = "running" THEN "terminate" ELSE "idle"
    /\ UNCHANGED <<calc, second, ghost, encoder, context, process, disk, setup, pc, exc, branch, counts, seen>>

\* lines 301-310 with the kill sent after a graceful request that succeeded
cancel_terminate_then_kill ==
    /\ cpc = "terminate"
    /\ IF ~executed
       THEN cpc' = "kill" /\ UNCHANGED <<terminated, signals>>
       ELSE /\ terminated' = TRUE
            /\ \E ok \in BOOLEAN :
                 IF ok
                 THEN signals' = Append(signals, "terminate") /\ cpc' = "kill"
                 ELSE signals' = signals /\ cpc' = "kill"
    /\ UNCHANGED <<calc, second, ghost, encoder, has_ffmpeg, media_info, executed, start_time, listeners,
                   process, disk, setup, pc, exc, branch, counts, finished, history,
                   probes, spawns, progress, started, cancel_hit, last_update>>

\* lines 301-305: terminate() raises when nothing is being executed, or when
\* the signal cannot be sent
cancel_terminate ==
    /\ cpc = "terminate"
    /\ IF ~executed
       THEN cpc' = "kill" /\ UNCHANGED <<terminated, signals>>
       ELSE /\ terminated' = TRUE
            /\ \E ok \in BOOLEAN :
                 IF ok
                 THEN signals' = Append(signals, "terminate") /\ cpc' = "unlink"
                 ELSE signals' = signals /\ cpc' = "kill"
    /\ UNCHANGED <<calc, second, ghost, encoder, has_ffmpeg, media_info, executed, start_time, listeners,
                   process, disk, setup, pc, exc, branch, counts, finished, history,
                   probes, spawns, progress, started, cancel_hit, last_update>>

\* lines 306-310: a kill that raises is logged
cancel_kill ==
    /\ cpc = "kill"
    /\ \E ok \in BOOLEAN :
         signals' = IF ok THEN Append(signals, "kill") ELSE signals
    /\ cpc' = "unlink"
    /\ UNCHANGED <<calc, second, ghost, encoder, context, process, disk, setup, pc, exc, branch, counts,
                   finished, history, probes, spawns, progress, started, cancel_hit,
                   last_update>>

\* lines 311-314: the finally clause; nothing catches what unlink() raises
cancel_unlink ==
    /\ cpc = "unlink"
    /\ IF outfile
       THEN \E ok \in BOOLEAN :
              IF ok
              THEN outfile' = FALSE /\ cpc' = "idle"
              ELSE outfile' = outfile /\ cpc' = "raised"
       ELSE outfile' = outfile /\ cpc' = "idle"
    /\ UNCHANGED <<calc, second, ghost, encoder, context, process, input_exists, setup, pc, exc, branch,
                   counts, seen>>

(* ------------------------------------------------ update_encoding_params *)
update_encoding_params ==
    /\ updates < MaxUpdates
    /\ updates' = updates + 1
    /\ \E new_params \in NewParams :
         IF is_encoding \/ is_cancelling
         THEN /\ last_update' = "SettingError"
              /\ encoding_params' = encoding_params
         ELSE /\ last_update' = "ok"
              /\ encoding_params' = Merge(encoding_params, new_params)
    /\ UNCHANGED <<calc, second, ghost, state, cancelled, error_details, options_used, context, process,
                   disk, setup, control,  cancels, lines, ticks, finished,
                   history, probes, spawns, signals, progress, started, cancel_hit>>

(* ---------------------------------------------------------- specification *)
Next ==
    \/ start
    \/ start_preparing
    \/ validate_input
    \/ setup_ffmpeg
    \/ setup_ffmpeg_callbacks
    \/ execute
    \/ on_stderr
    \/ on_progress
    \/ ProcessOpensOutput
    \/ ProcessExits
    \/ execute_returns
    \/ classify_result
    \/ result_cancelled
    \/ result_completed
    \/ result_error
    \/ handle_error
    \/ cancel
    \/ cancel_set_flag
    \/ cancel_set_state
    \/ cancel_poll
    \/ cancel_terminate
    \/ cancel_kill
    \/ cancel_unlink
    \/ update_encoding_params

Spec == Init /\ [][Next]_vars

TypeOK ==
    /\ state \in EncodingState
    /\ cancelled \in BOOLEAN
    /\ pc \in {"idle", "prep", "validate", "setup", "callbacks", "execute", "executing",
               "result", "classified", "error", "returned", "raised"}
    /\ cpc \in {"idle", "flag", "state", "poll", "terminate", "kill", "unlink", "raised"}
    /\ proc \in {"none", "running", "exited"}
    /\ listeners \subseteq {"progress", "stderr"}

(* ================================================================ claims *)
Failure(msg) == [success |-> FALSE, msg |-> msg, info |-> FALSE]
Success      == [success |-> TRUE, msg |-> MsgSuccess, info |-> TRUE]

C3_Run ==
    /\ pc = "returned"
    /\ history[1] = IDLE
    /\ on_progress_cb /\ on_finished_cb
    /\ marker_seen
    /\ branch = "completed"
    /\ cancels = 0

C3_Outcome ==
    /\ history = <<IDLE, PREPARING, ENCODING, COMPLETED>>
    /\ finished = << Success >>

C4_CancelMidRun ==
    (/\ pc = "returned" /\ cpc = "idle"
     /\ cancel_at.phase = "running"
     /\ exc = "none") =>
        /\ state = CANCELLED
        /\ on_finished_cb => (Len(finished) = 1 /\ ~finished[1].success)
        /\ ~outfile

\* C5: with no input file on disk, start() spawns neither binary, ends in state
\* Error and reports the failure with success=false.
C5_MissingInput ==
    (pc = "returned" /\ ~input_exists) =>
        /\ probes = 0 /\ spawns = 0
        /\ state = ERROR
        /\ on_finished_cb => finished = << Failure(MsgValidation) >>

\* C6: the process exited with a non-zero code, no handler failed and the
\* cancellation flag is not set; start() ends in state Error and the
\* finished-callback got, once, success=false and a message with the exit code.
C6_NonZeroExit ==
    (/\ pc = "returned"
     /\ proc = "exited" /\ returncode # 0
     /\ exc # OtherException
     /\ ~cancelled /\ ~cancel_hit /\ cpc = "idle") =>
        /\ state = ERROR
        /\ on_finished_cb => finished = << Failure(MsgExitCode(returncode)) >>

\* C7: cancel() took effect during the attempt (called while start() was
\* running, in state Preparing or Encoding, it set the cancellation flag); when
\* start() and cancel() have returned the state is Cancelled and the
\* finished-callback got success=false, the cancelled-by-user message and no
\* output description.
C7_CancelFinalizes ==
    (/\ pc = "returned" /\ cpc = "idle" /\ cancel_hit
     /\ cancel_at.phase # "outside") =>
        /\ state = CANCELLED
        /\ on_finished_cb => finished = << Failure(MsgCancelled) >>

\* C8: a call of update_encoding_params made while the state is Encoding or
\* Cancelling fails with SettingError and leaves the option map as it was.
C8_UpdateRejected ==
    [][ (updates' # updates /\ state \in {ENCODING, CANCELLING}) =>
            (last_update' = "SettingError" /\ encoding_params' = encoding_params) ]_vars

C10_CancelNeverRaises == cpc # "raised"

(***************************************************************************)
(* The figures of a progress notification (on_progress, after the flag     *)
(* test).  A tick carries the wall-clock time since _start_time and the    *)
(* processed time of the output, both as whole seconds of a timedelta, the *)
(* duration and nb_frames the context answers for the input, and the frame *)
(* counter.  Quotients are exact; the code's are floating point.           *)
(***************************************************************************)
MaxDays     == 1     \* whole days in a timedelta
MaxSeconds  == 10    \* seconds within the day
MaxFrame    == 3     \* frame counter of a tick
SecondsPerDay == 86400

Absent == -1         \* the context has no such attribute
Durations == {0, 5, 10, 50}

Timedeltas == {d * SecondsPerDay + sec : d \in 0..MaxDays, sec \in 0..MaxSeconds}

Ticks == [elapsed : Timedeltas, processed : Timedeltas, duration : Durations,
          frame : 0..MaxFrame, nb_frames : {Absent} \cup 0..(MaxFrame - 1)]

\* timedelta.seconds: the seconds field, the days are a field of their own
seconds(td) == td % SecondsPerDay

\* int(a / b) for b > 0: the fraction is dropped towards zero
TruncDiv(a, b) == IF a >= 0 THEN a \div b ELSE -((-a) \div b)

Min(a, b) == IF a <= b THEN a ELSE b

\* remaining, with speed = processed / elapsed
remaining(t) ==
    LET elapsed   == seconds(t.elapsed)
        processed == seconds(t.processed)
    IN  IF elapsed > 0 /\ processed > 0
        THEN TruncDiv((t.duration - processed) * elapsed, processed)
        ELSE 0

percent_uncapped(t) ==
    IF t.nb_frames # Absent /\ t.nb_frames > 0
    THEN [num |-> t.frame * 100, den |-> t.nb_frames]
    ELSE [num |-> 0, den |-> 1]

\* percent, as the fraction num/den
percent(t) ==
    IF t.nb_frames # Absent /\ t.nb_frames > 0
    THEN [num |-> Min(100 * t.nb_frames, t.frame * 100), den |-> t.nb_frames]
    ELSE [num |-> 0, den |-> 1]

\* on_progress for a tick that finds the flag clear
on_progress_figures ==
    /\ tick # Nothing /\ tick_out = Nothing
    /\ tick_out' = [percent |-> percent(tick), remaining |-> remaining(tick)]
    /\ UNCHANGED <<encoder, context, process, disk, setup, control, counts, seen, ghost,
                   tick, rate_text, rate_out, probe_data, probed, raw_data, props, ctx,
                   second>>

TickInit ==
    /\ Constructed /\ input_exists /\ on_progress_cb /\ on_finished_cb
    /\ NoSecond
    /\ tick \in Ticks /\ tick_out = Nothing
    /\ rate_text = Nothing /\ rate_out = Nothing
    /\ probe_data = Nothing /\ probed = Nothing
    /\ raw_data = Nothing /\ props = Nothing /\ ctx = Nothing

TickNext == on_progress_figures

TickSpec == TickInit /\ [][TickNext]_vars

\* C11: the ETA handed to the progress callback is never negative (it is
\* clamped to 0 when the processed time exceeds the total duration).
C11_EtaNeverNegative ==
    (tick_out # Nothing /\ tick.duration > 0) => tick_out.remaining >= 0

\* the ETA of the formula, from the full elapsed and processed times
FullEta(t) ==
    IF t.elapsed > 0 /\ t.processed > 0
    THEN TruncDiv((t.duration - t.processed) * t.elapsed, t.processed)
    ELSE 0

\* C12: the ETA is (total - processed) / speed with speed = processed /
\* elapsed, where elapsed is the full wall-clock time since the start (also
\* past a day) and processed the tick's full processed time; it is 0 when
\* elapsed or speed is 0 (elapsed 10, processed 5, total 50 give 90).
C12_EtaFromFullTimes ==
    (tick_out # Nothing /\ tick.duration > 0 /\ tick.processed <= tick.duration) =>
        /\ tick_out.remaining = FullEta(tick)
        /\ (tick.elapsed = 10 /\ tick.processed = 5 /\ tick.duration = 50)
              => tick_out.remaining = 90

\* C13: percent is min(100, 100 * frame / nb_frames) when a positive frame
\* count is known and 0 otherwise, so it lies in 0..100 for every tick.
C13_PercentCapped ==
    tick_out # Nothing =>
        LET p == tick_out.percent
        IN  /\ p.den > 0 /\ 0 <= p.num /\ p.num <= 100 * p.den
            /\ IF tick.nb_frames # Absent /\ tick.nb_frames > 0
               THEN \/ /\ 100 * tick.frame <= 100 * tick.nb_frames
                       /\ p.num * tick.nb_frames = 100 * tick.frame * p.den
                    \/ /\ 100 * tick.frame > 100 * tick.nb_frames
                       /\ p.num = 100 * p.den
               ELSE p.num = 0

C13_Witness ==
    /\ tick_out # Nothing
    /\ tick.nb_frames = 2 /\ tick.frame = 3
    /\ tick_out.percent = [num |-> 200, den |-> 2]

\* C14: once the cancellation flag is set, no progress notification is
\* delivered for the rest of the attempt (neither a tick nor the final 100%),
\* however cancel() interleaves with a tick and with the classification of
\* the outcome in start().
C14_SilentAfterCancel == [][cancelled => progress' = progress]_vars

(***************************************************************************)
(* A second call of start() on the instance while the first caller is      *)
(* blocked in execute().  start() tests neither the state nor a running    *)
(* process: the second caller runs the same lines.  The first caller's     *)
(* return is followed only while no second call has begun.                 *)
(***************************************************************************)
\* lines 185-186, entered by the second caller
second_start ==
    /\ pc2 = "idle" /\ pc = "executing"
    /\ cancelled' = FALSE
    /\ set_state(PREPARING)
    /\ pc2' = "setup"
    /\ UNCHANGED <<calc, proc2, ghost, error_details, encoding_params, options_used,
                   context, process, disk, setup, control, counts, finished, probes,
                   spawns, signals, progress, started, cancel_hit, last_update>>

\* lines 188-190: self._ffmpeg becomes a fresh context with its own handlers
second_setup ==
    /\ pc2 = "setup"
    /\ probes' = probes + 1
    /\ \E ok \in BOOLEAN :
         IF ok
         THEN /\ has_ffmpeg' = TRUE /\ media_info' = "video"
              /\ executed' = FALSE /\ terminated' = FALSE /\ start_time' = FALSE
              /\ listeners' = IF on_progress_cb THEN {"progress", "stderr"} ELSE {}
              /\ pc2' = "execute"
              /\ UNCHANGED <<error_details, finished>>
         ELSE /\ error_details' = MsgUnexpected
              /\ Notify(FALSE, MsgUnexpected, FALSE)
              /\ pc2' = "returned"
              /\ UNCHANGED context
    /\ UNCHANGED <<calc, proc2, ghost, state, cancelled, encoding_params, options_used,
                   process, disk, setup, control, counts, history, spawns, signals,
                   progress, started, cancel_hit, last_update>>

\* line 197: the second context spawns its process
second_execute ==
    /\ pc2 = "execute"
    /\ start_time' = TRUE /\ executed' = TRUE
    /\ proc2' = "running"
    /\ spawns' = spawns + 1
    /\ pc2' = "executing"
    /\ UNCHANGED <<calc, ghost, encoder, has_ffmpeg, media_info, terminated, listeners,
                   process, disk, setup, control, counts, finished, history, probes,
                   signals, progress, started, cancel_hit, last_update>>

second_process_exits ==
    /\ proc2 = "running"
    /\ proc2' = "exited"
    /\ UNCHANGED <<calc, pc2, ghost, encoder, context, process, disk, setup, control,
                   counts, seen>>

\* lines 197-199 and 271-290 for the second caller, its exit code being rc
second_returns ==
    /\ pc2 = "executing" /\ proc2 = "exited"
    /\ executed' = FALSE
    /\ pc2' = "returned"
    /\ \E rc \in ExitCodes : \E outcome \in ExecuteOutcomes(rc, terminated) :
         IF outcome # "return"
         THEN /\ error_details' = MsgFFmpeg
              /\ Notify(FALSE, MsgFFmpeg, FALSE)
              /\ UNCHANGED <<state, history, progress>>
         ELSE IF rc = 0
         THEN /\ set_state(COMPLETED)
              /\ progress' = IF on_progress_cb THEN Append(progress, "final") ELSE progress
              /\ Notify(TRUE, MsgSuccess, TRUE)
              /\ UNCHANGED error_details
         ELSE /\ set_state(ERROR)
              /\ Notify(FALSE, MsgExitCode(rc), FALSE)
              /\ UNCHANGED <<error_details, progress>>
    /\ UNCHANGED <<calc, proc2, ghost, cancelled, encoding_params, options_used,
                   has_ffmpeg, media_info, terminated, start_time, listeners, process,
                   disk, setup, control, counts, probes, spawns, signals, started,
                   cancel_hit, last_update>>

ReentrantNext ==
    \/ pc2 = "idle" /\ start
    \/ pc2 = "idle" /\ start_preparing
    \/ pc2 = "idle" /\ validate_input
    \/ pc2 = "idle" /\ setup_ffmpeg
    \/ pc2 = "idle" /\ setup_ffmpeg_callbacks
    \/ pc2 = "idle" /\ execute
    \/ pc2 = "idle" /\ execute_returns
    \/ pc2 = "idle" /\ classify_result
    \/ pc2 = "idle" /\ result_completed
    \/ pc2 = "idle" /\ result_error
    \/ pc2 = "idle" /\ handle_error
    \/ ProcessOpensOutput
    \/ ProcessExits
    \/ second_start
    \/ second_setup
    \/ second_execute
    \/ second_process_exits
    \/ second_returns

ReentrantSpec == Init /\ [][ReentrantNext]_vars

\* C15: at most one transcoding process is in flight at any time, whatever
\* the sequence and interleaving of start() calls on the instance: a second
\* start() while the first is blocked does not spawn a second process.
C15_SingleProcess == ~(proc = "running" /\ proc2 = "running")

Range(f) == {f[i] : i \in DOMAIN f}

\* C16: with the handlers subscribed, the state becomes Encoding at the first
\* diagnostic line holding "options:" (not at spawn) and the key=value list
\* after the marker becomes the effective-options snapshot; when the process
\* exits without such a line, the attempt goes from Preparing directly to
\* Completed or Error according to the exit code and is never Encoding.
C16_EncodingAtMarker ==
    /\ ENCODING \in Range(history) => marker_seen
    /\ (marker_seen /\ on_progress_cb) =>
          /\ ENCODING \in Range(history)
          /\ options_used # NoOptions
    /\ (/\ pc = "returned" /\ proc = "exited" /\ ~marker_seen
        /\ cancels = 0 /\ ticks = 0) =>
          /\ ENCODING \notin Range(history)
          /\ state = IF returncode = 0 THEN COMPLETED ELSE ERROR

\* C17: when the probed input has no video stream, start() reports a
\* validation failure through the finished-callback with success false and
\* the transcoding process is never spawned.
C17_NoVideoRejected ==
    (pc = "returned" /\ has_ffmpeg /\ media_info = "novideo") =>
        /\ spawns = 0 /\ proc = "none"
        /\ exc = ValidationException
        /\ on_finished_cb => finished = << Failure(MsgValidation) >>

C17_Witness ==
    /\ pc = "returned" /\ has_ffmpeg /\ media_info = "novideo"
    /\ finished = << Failure(MsgValidation) >>
    /\ spawns = 0

(***************************************************************************)
(* VideoStreamInfo.frame_rate.  The r_frame_rate text is a sequence of     *)
(* characters; it is split at "/" and its pieces are converted by int().   *)
(***************************************************************************)
MaxRateLen == 4      \* characters in an r_frame_rate text

Digits == {"0", "1", "3", "9"}
Chars  == Digits \cup {"/", "x"}

NtscRate == <<"3", "0", "0", "0", "0", "/", "1", "0", "0", "1">>

RateTexts == UNION {[1..n -> Chars] : n \in 0..MaxRateLen} \cup {NtscRate}

\* the field of the raw stream data: missing, or a text
RateFields == {[present |-> FALSE, text |-> <<>>]}
              \cup {[present |-> TRUE, text |-> t] : t \in RateTexts}

\* str.split(sep)
RECURSIVE Split(_, _)
Split(text, sep) ==
    IF \A i \in 1..Len(text) : text[i] # sep
    THEN <<text>>
    ELSE LET i == CHOOSE j \in 1..Len(text) :
                      text[j] = sep /\ \A k \in 1..(j - 1) : text[k] # sep
         IN  <<SubSeq(text, 1, i - 1)>> \o Split(SubSeq(text, i + 1, Len(text)), sep)

DigitValue(c) == CASE c = "0" -> 0 [] c = "1" -> 1 [] c = "3" -> 3 [] c = "9" -> 9

\* int(piece) raises ValueError unless the piece is a decimal numeral
IsInt(piece) == Len(piece) > 0 /\ \A i \in 1..Len(piece) : piece[i] \in Digits

RECURSIVE IntValue(_)
IntValue(piece) ==
    IF Len(piece) = 0 THEN 0
    ELSE 10 * IntValue(SubSeq(piece, 1, Len(piece) - 1)) + DigitValue(piece[Len(piece)])

Zero == [num |-> 0, den |-> 1]

\* a text without "/" read as a whole number of frames per second
frame_rate_lenient(field) ==
    LET rate_str == IF field.present THEN field.text ELSE <<"0", "/", "1">>
        pieces   == Split(rate_str, "/")
    IN  IF \E i \in 1..Len(pieces) : ~IsInt(pieces[i])
        THEN Zero
        ELSE IF Len(pieces) = 1
        THEN [num |-> IntValue(pieces[1]), den |-> 1]
        ELSE IF Len(pieces) # 2
        THEN Zero
        ELSE IF IntValue(pieces[2]) # 0
        THEN [num |-> IntValue(pieces[1]), den |-> IntValue(pieces[2])]
        ELSE Zero

\* frame_rate, as the fraction num/den; a ValueError of the unpacking or of
\* int() gives 0.0
frame_rate(field) ==
    LET rate_str == IF field.present THEN field.text ELSE <<"0", "/", "1">>
        pieces   == Split(rate_str, "/")
    IN  IF Len(pieces) # 2 \/ \E i \in 1..Len(pieces) : ~IsInt(pieces[i])
        THEN Zero
        ELSE IF IntValue(pieces[2]) # 0
        THEN [num |-> IntValue(pieces[1]), den |-> IntValue(pieces[2])]
        ELSE Zero

get_frame_rate ==
    /\ rate_text # Nothing /\ rate_out = Nothing
    /\ rate_out' = frame_rate(rate_text)
    /\ UNCHANGED <<encoder, context, process, disk, setup, control, counts, seen, ghost,
                   tick, tick_out, rate_text, probe_data, probed, raw_data, props, ctx,
                   second>>

RateInit ==
    /\ Constructed /\ input_exists /\ on_progress_cb /\ on_finished_cb
    /\ NoSecond
    /\ tick = Nothing /\ tick_out = Nothing
    /\ rate_text \in RateFields /\ rate_out = Nothing
    /\ probe_data = Nothing /\ probed = Nothing
    /\ raw_data = Nothing /\ props = Nothing /\ ctx = Nothing

RateNext == get_frame_rate

RateSpec == RateInit /\ [][RateNext]_vars

\* the text is <numeral>/<numeral>, the slash at position i
NumDenAt(text, i) ==
    /\ 1 < i /\ i < Len(text) /\ text[i] = "/"
    /\ \A k \in 1..Len(text) : k # i => text[k] \in Digits

\* C20: frame_rate is num/den for an r_frame_rate 'num/den' with den # 0
\* ('30000/1001' is about 29.97), and 0.0 when den is zero ('0/0'), when the
\* text is malformed (no slash, one slash too many, a part that is no
\* integer) or when the field is absent.
C20_FrameRate ==
    rate_out # Nothing =>
        /\ rate_out.den # 0
        /\ IF rate_text.present /\ \E i \in 1..Len(rate_text.text) :
                 /\ NumDenAt(rate_text.text, i)
                 /\ IntValue(SubSeq(rate_text.text, i + 1, Len(rate_text.text))) # 0
           THEN \A i \in 1..Len(rate_text.text) : NumDenAt(rate_text.text, i) =>
                  rate_out.num * IntValue(SubSeq(rate_text.text, i + 1, Len(rate_text.text)))
                    = IntValue(SubSeq(rate_text.text, 1, i - 1)) * rate_out.den
           ELSE rate_out.num = 0
        /\ (rate_text.present /\ rate_text.text = NtscRate) =>
              /\ 100 * rate_out.num > 2996 * rate_out.den
              /\ 100 * rate_out.num < 2998 * rate_out.den

C20_Witness ==
    /\ rate_out = [num |-> 30000, den |-> 1001]
    /\ rate_text = [present |-> TRUE, text |-> NtscRate]

(***************************************************************************)
(* MediaInfo.__init__ on the "streams" list of a probe report.  A raw      *)
(* stream holds its codec_type and, when it is a video stream, the fields  *)
(* the integrity check reads; bit_rate is text, as ffprobe prints it.      *)
(***************************************************************************)
MaxStreams == 2      \* streams in a probe report

Kinds      == {"video", "audio", "data", "subtitle", "attachment"}
KnownKinds == {"video", "audio", "data", "chapters", "subtitle"}
Dimensions == {Absent, 0, 2}

Missing     == [present |-> FALSE, text |-> <<>>]
Text(t)     == [present |-> TRUE, text |-> t]
RateSamples == {Missing, Text(<<"1", "/", "1">>), Text(<<"1", "/", "0">>)}
BitRates    == {Missing, Text(<<"0">>), Text(<<"3">>), Text(<<"x">>)}

VideoData == [width : Dimensions, height : Dimensions,
              r_frame_rate : RateSamples, bit_rate : BitRates]
Bare      == [width |-> Absent, height |-> Absent,
              r_frame_rate |-> Missing, bit_rate |-> Missing]
Healthy   == [width |-> 2, height |-> 2,
              r_frame_rate |-> Text(<<"1", "/", "1">>), bit_rate |-> Text(<<"3">>)]

RawStream(kind, data) ==
    [codec_type |-> kind, width |-> data.width, height |-> data.height,
     r_frame_rate |-> data.r_frame_rate, bit_rate |-> data.bit_rate]

\* the reports: the kinds of the streams, the data of the first video stream
\* and the data of the video streams after it
RawStreams(kinds, first, rest) ==
    [i \in 1..Len(kinds) |->
        IF kinds[i] # "video" THEN RawStream(kinds[i], Bare)
        ELSE IF \A j \in 1..(i - 1) : kinds[j] # "video"
        THEN RawStream("video", first)
        ELSE RawStream("video", rest)]

ProbeReports ==
    {[streams |-> RawStreams(kinds, first, rest)] :
        kinds \in UNION {[1..n -> Kinds] : n \in 0..MaxStreams},
        first \in VideoData, rest \in {Healthy, Bare}}

\* streams of a kind that has no list join the data streams
bucket_of_data(codec_type) ==
    IF codec_type \in KnownKinds THEN codec_type ELSE "data"

\* the list a stream joins: its kind when that is a key of self.streams
bucket_of(codec_type) ==
    IF codec_type \in KnownKinds THEN codec_type ELSE "other"

\* _parse_streams: the buckets hold the positions of the streams
RECURSIVE parse_streams(_, _, _)
parse_streams(raw, i, info) ==
    IF i > Len(raw) THEN info
    ELSE LET codec_type == raw[i].codec_type
             bucket == bucket_of(codec_type)
             old    == IF bucket \in DOMAIN info.streams
                       THEN info.streams[bucket] ELSE <<>>
             streams == [k \in DOMAIN info.streams \cup {bucket} |->
                            IF k = bucket THEN Append(old, i) ELSE info.streams[k]]
         IN  parse_streams(raw, i + 1,
                 [info EXCEPT
                    !.streams = streams,
                    !.main_video_stream =
                        IF codec_type = "video" /\ @ = 0 THEN i ELSE @,
                    !.main_audio_stream =
                        IF codec_type = "audio" /\ @ = 0 THEN i ELSE @])

\* an absent width counted as present
width_assumed(stream) == IF stream.width = Absent THEN 1 ELSE stream.width

\* VideoStreamInfo.width and height: get(key, 0)
width(stream)  == IF stream.width = Absent THEN 0 ELSE stream.width
height(stream) == IF stream.height = Absent THEN 0 ELSE stream.height

\* VideoStreamInfo.bit_rate: int(get("bit_rate", 0)) raises on other text
bit_rate_raises(stream) == stream.bit_rate.present /\ ~IsInt(stream.bit_rate.text)
bit_rate(stream) ==
    IF stream.bit_rate.present THEN IntValue(stream.bit_rate.text) ELSE 0

CauseNoStream    == "Aucun stream vidéo ou audio principal détecté."
CauseNoWidth     == "Pas d'info de largeur vidéo."
CauseNoHeight    == "Pas d'info de hauteur vidéo."
CauseNoFrameRate == "Pas d'info de frame rate vidéo."
CauseNoBitRate   == "Pas d'info de bit rate vidéo."

When(cond, cause) == IF cond THEN <<cause>> ELSE <<>>

\* _check_integrity whose first branch leaves the flag alone
check_integrity_unflagged(raw, info) ==
    IF info.main_video_stream = 0 /\ info.main_audio_stream = 0
    THEN [info EXCEPT !.failure_causes = <<CauseNoStream>>]
    ELSE LET main == raw[info.main_video_stream]
             causes == IF info.main_video_stream = 0 THEN <<>>
                       ELSE When(width(main) = 0, CauseNoWidth)
                            \o When(height(main) = 0, CauseNoHeight)
                            \o When(frame_rate(main.r_frame_rate).num = 0, CauseNoFrameRate)
                            \o When(bit_rate(main) = 0, CauseNoBitRate)
         IN  [info EXCEPT !.failure_causes = causes, !.failed = (causes # <<>>)]

\* _check_integrity
check_integrity(raw, info) ==
    IF info.main_video_stream = 0 /\ info.main_audio_stream = 0
    THEN [info EXCEPT !.failure_causes = <<CauseNoStream>>, !.failed = TRUE]
    ELSE LET main == raw[info.main_video_stream]
             causes == IF info.main_video_stream = 0 THEN <<>>
                       ELSE When(width(main) = 0, CauseNoWidth)
                            \o When(height(main) = 0, CauseNoHeight)
                            \o When(frame_rate(main.r_frame_rate).num = 0, CauseNoFrameRate)
                            \o When(bit_rate(main) = 0, CauseNoBitRate)
         IN  [info EXCEPT !.failure_causes = causes, !.failed = (causes # <<>>)]

\* the fields as lines 357-372 set them
EmptyInfo ==
    [failed |-> FALSE, failure_causes |-> <<>>,
     streams |-> [k \in KnownKinds |-> <<>>],
     main_video_stream |-> 0, main_audio_stream |-> 0]

Raised == [raised |-> TRUE]

\* MediaInfo(filepath, raw_probe_data); a ValueError of bit_rate leaves no object
MediaInfo_init ==
    /\ probe_data # Nothing /\ probed = Nothing
    /\ LET parsed == parse_streams(probe_data.streams, 1, EmptyInfo)
       IN  probed' = IF /\ parsed.main_video_stream # 0
                        /\ bit_rate_raises(probe_data.streams[parsed.main_video_stream])
                     THEN Raised
                     ELSE check_integrity(probe_data.streams, parsed)
    /\ UNCHANGED <<encoder, context, process, disk, setup, control, counts, seen, ghost,
                   tick, tick_out, rate_text, rate_out, probe_data, raw_data, props, ctx,
                   second>>

ProbeInit ==
    /\ Constructed /\ input_exists /\ on_progress_cb /\ on_finished_cb
    /\ NoSecond
    /\ tick = Nothing /\ tick_out = Nothing
    /\ rate_text = Nothing /\ rate_out = Nothing
    /\ probe_data \in ProbeReports /\ probed = Nothing
    /\ raw_data = Nothing /\ props = Nothing /\ ctx = Nothing

ProbeNext == MediaInfo_init

ProbeSpec == ProbeInit /\ [][ProbeNext]_vars

Built == probed # Nothing /\ probed # Raised

\* C18: for every probe report, failed is true exactly when the list of
\* failure causes is non-empty.
C18_FailedIffCauses == Built => (probed.failed <=> probed.failure_causes # <<>>)

C18_Witness ==
    /\ Built /\ probed.failed
    /\ probed.failure_causes = <<CauseNoWidth, CauseNoBitRate>>

HasKind(kind) ==
    \E i \in 1..Len(probe_data.streams) : probe_data.streams[i].codec_type = kind

FirstVideo ==
    LET raw == probe_data.streams
    IN  raw[CHOOSE i \in 1..Len(raw) :
                /\ raw[i].codec_type = "video"
                /\ \A j \in 1..(i - 1) : raw[j].codec_type # "video"]

\* C19: failed is true exactly when the report has neither a main video nor
\* a main audio stream, or has a main video stream whose width, height,
\* frame rate or bit rate is zero or absent; a report without audio and video
\* is failed with a cause, an audio-only report is not failed.
C19_FailedExactly ==
    Built =>
        /\ probed.failed <=>
             \/ ~HasKind("video") /\ ~HasKind("audio")
             \/ /\ HasKind("video")
                /\ \/ FirstVideo.width \in {Absent, 0}
                   \/ FirstVideo.height \in {Absent, 0}
                   \/ frame_rate(FirstVideo.r_frame_rate).num = 0
                   \/ ~FirstVideo.bit_rate.present
                   \/ FirstVideo.bit_rate.text = <<"0">>
        /\ (~HasKind("video") /\ ~HasKind("audio")) =>
              probed.failed /\ probed.failure_causes # <<>>
        /\ (~HasKind("video") /\ HasKind("audio")) => ~probed.failed

C19_Witness ==
    /\ Built /\ ~probed.failed
    /\ ~HasKind("video") /\ HasKind("audio")

Terminal == {COMPLETED, CANCELLED, ERROR}

\* C28: once the state is Cancelling, the only state it can change to is
\* Cancelled: neither an "options:" line arriving after cancel() nor the
\* classification of the outcome of an exited process moves it from
\* Cancelling to Encoding, Completed or Error.
C28_CancellingOnlyToCancelled ==
    [][state = CANCELLING => state' \in {CANCELLING, CANCELLED}]_vars

\* C29: whenever start() returns, the state is one of Completed, Cancelled
\* and Error, whatever ended the attempt (missing input, no video stream,
\* probe failure, process error, handler exception).
C29_TerminalAtReturn ==
    [][(pc # "returned" /\ pc' = "returned") => state' \in Terminal]_vars

\* C30: when cancel() takes effect before the transcoding process has been
\* spawned, start() does not spawn it afterwards: no process is ever started
\* while the cancellation flag is set.
C30_NoSpawnAfterCancel == [][cancelled => spawns' = spawns]_vars

(***************************************************************************)
(* The properties of VideoStreamInfo, read from the raw data of one video  *)
(* stream.  Numbers of the report are numbers, its texts are character     *)
(* sequences; tags.rotate, nb_frames and bit_rate are texts.               *)
(***************************************************************************)
MaxSideData == 2     \* entries of side_data_list

NoNum  == [present |-> FALSE, value |-> 0]
Num(v) == [present |-> TRUE, value |-> v]

RotateTags    == {Missing, Text(<<"0">>), Text(<<"9", "0">>), Text(<<"3", "9", "0">>)}
SideRotations == {-450, -90, 0, 90, 360}
SideData      == {NoNum} \cup {Num(v) : v \in SideRotations}
SideDataLists == UNION {[1..n -> SideData] : n \in 0..MaxSideData}

\* a video stream that reports nothing
BareVideo ==
    [index |-> NoNum, width |-> Absent, height |-> Absent, bit_rate |-> Missing,
     r_frame_rate |-> Missing, nb_frames |-> Missing, duration |-> Missing,
     rotate |-> Missing, side_data_list |-> <<>>,
     display_aspect_ratio |-> Missing, sample_aspect_ratio |-> Missing]

IsVideo(raw)  == "r_frame_rate" \in DOMAIN raw
IsAudio(raw)  == "sample_rate" \in DOMAIN raw
IsFormat(raw) == "size" \in DOMAIN raw

RotationStreams ==
    {[BareVideo EXCEPT !.rotate = tag, !.side_data_list = list] :
        tag \in RotateTags, list \in SideDataLists}

\* the rotate tag preferred to the side data
rotation_tag_first(stream) ==
    LET list == stream.side_data_list
        with == {i \in 1..Len(list) : list[i].present}
        i0   == CHOOSE i \in with : \A j \in with : i <= j
    IN  IF stream.rotate.present THEN IntValue(stream.rotate.text)
        ELSE IF with # {} THEN list[i0].value % 360
        ELSE 0

\* VideoStreamInfo.rotation: the first side data entry holding "rotation"
\* replaces the tag
rotation(stream) ==
    LET r    == IF stream.rotate.present THEN IntValue(stream.rotate.text) ELSE 0
        list == stream.side_data_list
        with == {i \in 1..Len(list) : list[i].present}
        i0   == CHOOSE i \in with : \A j \in with : i <= j
    IN  IF with # {} THEN list[i0].value % 360 ELSE r

\* str.replace(old, new) for single characters
Replace(text, old, new) ==
    [i \in 1..Len(text) |-> IF text[i] = old THEN new ELSE text[i]]

MaxWidth  == 3       \* small widths of a stream
MaxHeight == 2       \* small heights of a stream

Widths  == {Absent} \cup 0..MaxWidth \cup {720, 960, 1440, 1920}
Heights == {Absent} \cup 0..MaxHeight \cup {576, 720, 1080}

DarTexts == {Missing, Text(<<"3", ":", "1">>), Text(<<"0", ":", "1">>), Text(<<"x">>)}
SarTexts == {Missing, Text(<<"1", ":", "1">>), Text(<<"1", "/", "1">>),
             Text(<<"3", ":", "1">>), Text(<<"1", ":", "3">>), Text(<<"1", ":", "0">>),
             Text(<<"0", ":", "1">>), Text(<<"3">>), Text(<<"x">>)}

DarStreams ==
    {[BareVideo EXCEPT !.width = w, !.height = h,
                       !.display_aspect_ratio = dar, !.sample_aspect_ratio = sar] :
        w \in Widths, h \in Heights, dar \in DarTexts, sar \in SarTexts}

RECURSIVE GCD(_, _)
GCD(a, b) == IF b = 0 THEN a ELSE GCD(b, a % b)

\* a fraction kept as it was built
Unreduced(n, d) == [num |-> n, den |-> d]

\* Fraction(n, d) for n >= 0 and d > 0: lowest terms
Reduced(n, d) == [num |-> n \div GCD(n, d), den |-> d \div GCD(n, d)]

\* VideoStreamInfo.sample_aspect_ratio
sample_aspect_ratio(stream) ==
    Replace(IF stream.sample_aspect_ratio.present
            THEN stream.sample_aspect_ratio.text ELSE <<"1", "/", "1">>, ":", "/")

\* Fraction(text): ValueError for a text that is no numeral or pair of
\* numerals, ZeroDivisionError for a zero denominator
FractionOf(text) ==
    LET pieces == Split(text, "/")
    IN  IF Len(pieces) > 2 \/ \E i \in 1..Len(pieces) : ~IsInt(pieces[i])
        THEN [error |-> "ValueError"]
        ELSE IF Len(pieces) = 1
        THEN [error |-> "none", num |-> IntValue(pieces[1]), den |-> 1]
        ELSE IF IntValue(pieces[2]) = 0
        THEN [error |-> "ZeroDivisionError"]
        ELSE [error |-> "none", num |-> IntValue(pieces[1]), den |-> IntValue(pieces[2])]

None == [absent |-> TRUE]

\* VideoStreamInfo.display_aspect_ratio; a derived value is the fraction
\* that str() prints
display_aspect_ratio(stream) ==
    IF stream.display_aspect_ratio.present
    THEN [text |-> Replace(stream.display_aspect_ratio.text, ":", "/")]
    ELSE IF width(stream) = 0 \/ height(stream) = 0
    THEN None
    ELSE LET sarf == FractionOf(Replace(sample_aspect_ratio(stream), ":", "/"))
         IN  IF sarf.error = "none"
             THEN Reduced(sarf.num * width(stream), sarf.den * height(stream))
             ELSE IF width(stream) = 720 /\ height(stream) = 576
             THEN [num |-> 4, den |-> 3]
             ELSE IF width(stream) = 960 /\ height(stream) = 720
             THEN [num |-> 16, den |-> 9]
             ELSE IF width(stream) = 1440 /\ height(stream) = 1080
             THEN [num |-> 16, den |-> 9]
             ELSE Reduced(width(stream), height(stream))

get_display_aspect_ratio ==
    /\ IsVideo(raw_data) /\ props = Nothing
    /\ props' = [name |-> "display_aspect_ratio", value |-> display_aspect_ratio(raw_data)]
    /\ UNCHANGED <<encoder, context, process, disk, setup, control, counts, seen, ghost,
                   tick, tick_out, rate_text, rate_out, probe_data, probed, raw_data,
                   ctx, second>>

\* a field of the report that is a number, not a text
Number(n) == [present |-> TRUE, number |-> n]

FrameCounts    == {Missing, Text(<<"0">>), Text(<<"3">>), Text(<<"x">>)}
FrameRates     == RateSamples \cup {Text(<<"3", "/", "1">>)}
FrameDurations == {Missing, Text(<<"0">>), Text(<<"3">>), Number(0), Number(3)}

FrameStreams ==
    {[BareVideo EXCEPT !.nb_frames = n, !.r_frame_rate = r, !.duration = d] :
        n \in FrameCounts, r \in FrameRates, d \in FrameDurations}

\* StreamInfo.__getattr__: only the keys of the raw data are attributes, so
\* main_video_stream never is one
stream_has(stream, name) ==
    /\ name \in DOMAIN stream
    /\ stream[name].present

\* VideoStreamInfo.nb_frames: a value, or the exception the read ends in
nb_frames(stream) ==
    IF stream.nb_frames.present
    THEN IF IsInt(stream.nb_frames.text)
         THEN [value |-> IntValue(stream.nb_frames.text)]
         ELSE [raises |-> "ValueError"]
    ELSE IF frame_rate(stream.r_frame_rate).num <= 0
    THEN [value |-> 0]
    ELSE IF ~stream_has(stream, "duration")
    THEN [raises |-> "AttributeError"]
    ELSE IF "text" \in DOMAIN stream.duration
    THEN [raises |-> "TypeError"]
    ELSE IF stream.duration.number <= 0
    THEN [value |-> 0]
    ELSE IF ~stream_has(stream, "main_video_stream")
    THEN [raises |-> "AttributeError"]
    ELSE [value |-> TruncDiv(frame_rate(stream.r_frame_rate).num * stream.duration.number,
                             frame_rate(stream.r_frame_rate).den)]

get_nb_frames ==
    /\ IsVideo(raw_data) /\ props = Nothing
    /\ props' = [name |-> "nb_frames", value |-> nb_frames(raw_data)]
    /\ UNCHANGED <<encoder, context, process, disk, setup, control, counts, seen, ghost,
                   tick, tick_out, rate_text, rate_out, probe_data, probed, raw_data,
                   ctx, second>>

Indexes    == {NoNum, Num(0), Num(1)}
Numerals   == {Missing, Text(<<"0">>), Text(<<"3">>)}

NumericVideo ==
    {[BareVideo EXCEPT !.index = i, !.width = w, !.height = h, !.bit_rate = b] :
        i \in Indexes, w \in Dimensions, h \in Dimensions, b \in Numerals}

\* the raw data of an audio stream and of the format record
AudioStreams ==
    [index : Indexes, sample_rate : Numerals, channels : Indexes, bit_rate : Numerals]
Formats == [duration : Numerals, size : Numerals]

\* StreamInfo.index: get("index", -1)
index(stream) == IF stream.index.present THEN stream.index.value ELSE -1

\* int(get(key, 0)) and float(get(key, 0.0)) of a numeral
number_of(field) == IF field.present THEN IntValue(field.text) ELSE 0

\* AudioStreamInfo.channels: int(get("channels", 0))
channels(stream) == IF stream.channels.present THEN stream.channels.value ELSE 0

\* the numeric properties of a stream or format record
numeric_fields(raw) ==
    IF IsVideo(raw)
    THEN [index |-> index(raw), width |-> width(raw), height |-> height(raw),
          bit_rate |-> bit_rate(raw)]
    ELSE IF IsAudio(raw)
    THEN [index |-> index(raw), sample_rate |-> number_of(raw.sample_rate),
          channels |-> channels(raw), bit_rate |-> number_of(raw.bit_rate)]
    ELSE [duration |-> number_of(raw.duration), size |-> number_of(raw.size)]

get_numeric_fields ==
    /\ raw_data # Nothing /\ props = Nothing
    /\ props' = [name |-> "numeric", value |-> numeric_fields(raw_data)]
    /\ UNCHANGED <<encoder, context, process, disk, setup, control, counts, seen, ghost,
                   tick, tick_out, rate_text, rate_out, probe_data, probed, raw_data,
                   ctx, second>>

get_rotation ==
    /\ IsVideo(raw_data) /\ props = Nothing
    /\ props' = [name |-> "rotation", value |-> rotation(raw_data)]
    /\ UNCHANGED <<encoder, context, process, disk, setup, control, counts, seen, ghost,
                   tick, tick_out, rate_text, rate_out, probe_data, probed, raw_data,
                   ctx, second>>

VideoStreams == RotationStreams \cup DarStreams \cup FrameStreams \cup NumericVideo

StreamInit ==
    /\ Constructed /\ input_exists /\ on_progress_cb /\ on_finished_cb
    /\ NoSecond
    /\ tick = Nothing /\ tick_out = Nothing
    /\ rate_text = Nothing /\ rate_out = Nothing
    /\ probe_data = Nothing /\ probed = Nothing
    /\ raw_data \in VideoStreams \cup AudioStreams \cup Formats
    /\ props = Nothing /\ ctx = Nothing

StreamNext ==
    \/ get_rotation
    \/ get_display_aspect_ratio
    \/ get_nb_frames
    \/ get_numeric_fields

StreamSpec == StreamInit /\ [][StreamNext]_vars

Read(name) == props # Nothing /\ props.name = name

HasSideRotation ==
    \E i \in 1..Len(raw_data.side_data_list) : raw_data.side_data_list[i].present

\* C21: rotation is the value of the rotate tag when the stream has no
\* rotation side data (rotate=90 gives 90); rotation side data overrides the
\* tag and is normalized into [0, 360) (side data -90 gives 270).
C21_Rotation ==
    Read("rotation") =>
        /\ (~HasSideRotation /\ raw_data.rotate.present) =>
              props.value = IntValue(raw_data.rotate.text)
        /\ (~HasSideRotation /\ raw_data.rotate = Text(<<"9", "0">>)) => props.value = 90
        /\ HasSideRotation =>
              /\ props.value \in 0..359
              /\ \A i \in 1..Len(raw_data.side_data_list) :
                    (/\ raw_data.side_data_list[i].present
                     /\ \A j \in 1..(i - 1) : ~raw_data.side_data_list[j].present) =>
                       \E k \in -2..2 :
                          props.value = raw_data.side_data_list[i].value + 360 * k
        /\ (Len(raw_data.side_data_list) > 0 /\ raw_data.side_data_list[1] = Num(-90)) =>
              props.value = 270

C21_Witness ==
    /\ Read("rotation") /\ props.value = 270
    /\ raw_data.rotate = Text(<<"9", "0">>)
    /\ raw_data.side_data_list = <<Num(-90)>>

\* the text is <numeral>:<numeral> or <numeral>/<numeral>, split at i
RatioAt(text, i) ==
    /\ 1 < i /\ i < Len(text) /\ text[i] \in {":", "/"}
    /\ \A k \in 1..Len(text) : k # i => text[k] \in Digits

\* C22: display_aspect_ratio returns the reported value when the report
\* carries one; otherwise, for non-zero width and height and a well-formed
\* SAR, it is SAR x (width / height) as an exact rational in lowest terms
\* (1920 x 1080 with SAR 1/1 gives 16/9).
C22_DisplayAspectRatio ==
    Read("display_aspect_ratio") =>
        LET reported == raw_data.display_aspect_ratio
            sar      == raw_data.sample_aspect_ratio
            dar      == props.value
        IN  /\ reported.present =>
                  /\ DOMAIN dar = {"text"} /\ Len(dar.text) = Len(reported.text)
                  /\ \A i \in 1..Len(reported.text) :
                        \/ dar.text[i] = reported.text[i]
                        \/ reported.text[i] = ":" /\ dar.text[i] = "/"
            /\ (/\ ~reported.present
                /\ raw_data.width \notin {Absent, 0} /\ raw_data.height \notin {Absent, 0}
                /\ sar.present) =>
                  \A i \in 1..Len(sar.text) :
                     (/\ RatioAt(sar.text, i)
                      /\ IntValue(SubSeq(sar.text, i + 1, Len(sar.text))) # 0) =>
                        /\ DOMAIN dar = {"num", "den"} /\ dar.den > 0
                        /\ GCD(dar.num, dar.den) = 1
                        /\ dar.num * IntValue(SubSeq(sar.text, i + 1, Len(sar.text)))
                                   * raw_data.height
                             = IntValue(SubSeq(sar.text, 1, i - 1)) * raw_data.width * dar.den
            /\ (/\ ~reported.present /\ raw_data.width = 1920 /\ raw_data.height = 1080
                /\ sar = Text(<<"1", "/", "1">>)) =>
                  dar = [num |-> 16, den |-> 9]

C22_Witness ==
    /\ Read("display_aspect_ratio") /\ props.value = [num |-> 16, den |-> 9]
    /\ raw_data.width = 1920 /\ raw_data.height = 1080
    /\ raw_data.sample_aspect_ratio = Text(<<"1", "/", "1">>)
    /\ ~raw_data.display_aspect_ratio.present

\* the duration of the report, as a number of seconds
DurationValue(field) ==
    IF ~field.present THEN 0
    ELSE IF "text" \in DOMAIN field
    THEN (IF IsInt(field.text) THEN IntValue(field.text) ELSE 0)
    ELSE field.number

\* C23: nb_frames of a video stream is the reported value when the report
\* carries it, and otherwise frame_rate x duration truncated to an integer,
\* for every report with a positive frame rate and duration.
C23_FrameCount ==
    Read("nb_frames") =>
        LET rate == frame_rate(raw_data.r_frame_rate)
        IN  /\ (raw_data.nb_frames.present /\ IsInt(raw_data.nb_frames.text)) =>
                  props.value = [value |-> IntValue(raw_data.nb_frames.text)]
            /\ (/\ ~raw_data.nb_frames.present
                /\ rate.num > 0 /\ DurationValue(raw_data.duration) > 0) =>
                  props.value =
                     [value |-> TruncDiv(rate.num * DurationValue(raw_data.duration),
                                         rate.den)]

\* the field is missing from the raw data
Omitted(raw, key) ==
    IF key \in {"width", "height"} THEN raw[key] = Absent ELSE ~raw[key].present

\* C27: every numeric field of a stream or format record (index, width,
\* height, video and audio bit rate, sample rate, channel count, duration,
\* size) is 0, never null, when the report omits it.
C27_NumericDefaults ==
    Read("numeric") =>
        \A key \in DOMAIN props.value :
            Omitted(raw_data, key) => props.value[key] = 0

\* the list of the claim for a stream of the given kind
ListOf(kind) ==
    IF kind \in {"video", "audio", "data", "chapters", "subtitle"} THEN kind ELSE "other"

\* C24: each stream of the report is placed, in report order, in the list of
\* its kind (video, audio, data, chapters, subtitle, or "other" for any other
\* kind), every stream in exactly one list; the main video and audio streams
\* are the first elements of the video and audio lists, or absent.
C24_StreamLists ==
    Built =>
        LET raw   == probe_data.streams
            lists == probed.streams
        IN  /\ \A i \in 1..Len(raw) :
                  /\ ListOf(raw[i].codec_type) \in DOMAIN lists
                  /\ \A k \in DOMAIN lists :
                        (\E n \in 1..Len(lists[k]) : lists[k][n] = i)
                           <=> k = ListOf(raw[i].codec_type)
            /\ \A k \in DOMAIN lists :
                  /\ \A n \in 1..Len(lists[k]) : lists[k][n] \in 1..Len(raw)
                  /\ \A m, n \in 1..Len(lists[k]) : m < n => lists[k][m] < lists[k][n]
            /\ probed.main_video_stream =
                  IF lists["video"] = <<>> THEN 0 ELSE lists["video"][1]
            /\ probed.main_audio_stream =
                  IF lists["audio"] = <<>> THEN 0 ELSE lists["audio"][1]

C24_Witness ==
    /\ Built
    /\ "other" \in DOMAIN probed.streams
    /\ probed.streams["other"] = <<1>> /\ probed.streams["video"] = <<2>>
    /\ probed.main_video_stream = 2 /\ probed.main_audio_stream = 0

(* ------------------------------------------------------------ ContextSpec *)
(* FFmpegContext.input and FFmpegContext.probe over FFprobe.probe.  What    *)
(* the probed path and the ffprobe child process do is drawn anew at each   *)
(* call of FFprobe.probe.                                                   *)
MaxInputs == 2      \* calls of input() on a context
MaxProbes == 1      \* calls of probe() on a context by its owner

Paths == {"a.mp4", "b.mp4"}

\* what FFprobe.probe meets: whether the path exists, whether the executable
\* can be launched, the exit code of the child, and what its stdout and its
\* stderr hold: a JSON object, a JSON array, text that is not JSON, or
\* bytes that are not UTF-8 text
NotText == "\\xff"
Stdouts == {"{}", "[]", "garbage", NotText}
Stderrs == {"", "moov atom not found", NotText}
Envs ==
    [exists : BOOLEAN, launchable : BOOLEAN,
     returncode : {0, 1}, stdout : Stdouts, stderr : Stderrs]

\* subprocess.run(text=True, encoding="utf-8") decodes both pipes
decodable(env) == env.stdout # NotText /\ env.stderr # NotText

Raises(kind, run, message) ==
    [raised |-> kind, run |-> run, message |-> message]

\* FFprobe.probe: run tells whether subprocess.run was called
FFprobe_probe(filepath, env) ==
    IF ~env.exists
    THEN Raises("FileNotFoundError", FALSE, <<"Le fichier n'existe pas", filepath>>)
    ELSE IF ~env.launchable
    THEN Raises("RuntimeError", TRUE, <<"Erreur inattendue", "OSError">>)
    ELSE IF ~decodable(env)
    THEN Raises("RuntimeError", TRUE, <<"Erreur inattendue", "UnicodeDecodeError">>)
    ELSE IF env.returncode # 0
    THEN Raises("RuntimeError", TRUE, <<"Erreur lors de l'execution de ffprobe", env.stderr>>)
    ELSE IF env.stdout = "garbage"
    THEN Raises("ValueError", TRUE, <<"Erreur de decodage JSON", "JSONDecodeError">>)
    ELSE IF env.stdout = "[]"
    THEN Raises("RuntimeError", TRUE, <<"Erreur inattendue", "AttributeError">>)
    ELSE [raised |-> "", run |-> TRUE, message |-> <<>>, filepath |-> filepath]

\* every input added probes
should_probe_each(input_files, prevent_auto_probing) ==
    ~prevent_auto_probing

\* input: the condition of the automatic probe
should_probe(input_files, prevent_auto_probing) ==
    Len(input_files) = 1 /\ ~prevent_auto_probing

\* FFmpegContext.probe on a context with an input: the cached description
\* is replaced when FFprobe.probe returns, kept when it raises
Probed(c, by, env) ==
    LET result == FFprobe_probe(c.input_files[1], env)
    IN  [c EXCEPT !.media_info = IF result.raised = ""
                                 THEN [filepath |-> result.filepath]
                                 ELSE @,
                  !.auto = IF by > 0
                           THEN Append(@, [by |-> by, raised |-> result.raised])
                           ELSE @,
                  !.last = [env |-> env, result |-> result],
                  !.raised = result.raised]

\* FFmpegContext.input(url)
input(url) ==
    /\ ctx # Nothing
    /\ Len(ctx.input_files) < MaxInputs
    /\ LET added == [ctx EXCEPT !.input_files = Append(@, url), !.raised = ""]
       IN  IF should_probe(added.input_files, added.prevent_auto_probing)
           THEN \E env \in Envs : ctx' = Probed(added, Len(added.input_files), env)
           ELSE ctx' = added
    /\ UNCHANGED <<encoder, context, process, disk, setup, control, counts, seen, ghost,
                   tick, tick_out, rate_text, rate_out, probe_data, probed, raw_data,
                   props, second>>

\* FFmpegContext.probe() called by the owner of the context
probe ==
    /\ ctx # Nothing
    /\ ctx.owner_probes < MaxProbes
    /\ LET called == [ctx EXCEPT !.owner_probes = @ + 1]
       IN  IF Len(ctx.input_files) = 0
           THEN ctx' = [called EXCEPT !.raised = "FFmpegError"]
           ELSE \E env \in Envs : ctx' = Probed(called, 0, env)
    /\ UNCHANGED <<encoder, context, process, disk, setup, control, counts, seen, ghost,
                   tick, tick_out, rate_text, rate_out, probe_data, probed, raw_data,
                   props, second>>

\* FFmpegContext.__init__ without the input keyword
ContextInit ==
    /\ Constructed /\ input_exists /\ on_progress_cb /\ on_finished_cb
    /\ NoSecond
    /\ tick = Nothing /\ tick_out = Nothing
    /\ rate_text = Nothing /\ rate_out = Nothing
    /\ probe_data = Nothing /\ probed = Nothing
    /\ raw_data = Nothing /\ props = Nothing
    /\ \E prevent \in BOOLEAN :
          ctx = [prevent_auto_probing |-> prevent, input_files |-> <<>>,
                 media_info |-> None, auto |-> <<>>, last |-> Nothing,
                 raised |-> "", owner_probes |-> 0]

ContextNext ==
    \/ \E url \in Paths : input(url)
    \/ probe

ContextSpec == ContextInit /\ [][ContextNext]_vars

\* FFprobe.probe has been called on behalf of the context
Called == ctx # Nothing /\ ctx.last # Nothing

\* C25: FFprobe.probe raises FileNotFoundError, without running the binary,
\* when the path does not exist; RuntimeError carrying the binary's stderr
\* when the binary exits non-zero; ValueError when the binary exits zero and
\* its stdout is not well-formed JSON; the three kinds are distinct.
C25_ProbeErrors ==
    Called =>
        LET env    == ctx.last.env
            result == ctx.last.result
            ran    == env.exists /\ env.launchable
            json   == env.stdout \in {"{}", "[]"}
        IN  /\ ~env.exists =>
                  result.raised = "FileNotFoundError" /\ ~result.run
            /\ (ran /\ env.returncode # 0) =>
                  /\ result.raised = "RuntimeError"
                  /\ result.message[2] = env.stderr
            /\ (ran /\ env.returncode = 0 /\ ~json) =>
                  result.raised = "ValueError"
            /\ Cardinality({"FileNotFoundError", "RuntimeError", "ValueError"}) = 3

\* the automatic probes: the calls of FFprobe.probe that input() made
AutoProbes == ctx.auto

\* C26 as stated: with auto-probing enabled the probe is triggered exactly
\* once, by the first input added; media_info is absent before the first
\* input and afterwards always describes the first input.
C26_ProbedOnceAlways ==
    (ctx # Nothing /\ ~ctx.prevent_auto_probing) =>
        IF ctx.input_files = <<>>
        THEN AutoProbes = <<>> /\ ctx.media_info = None
        ELSE /\ Len(AutoProbes) = 1 /\ AutoProbes[1].by = 1
             /\ ctx.media_info # None
             /\ ctx.media_info.filepath = ctx.input_files[1]

\* C26: with auto-probing enabled the probe is triggered exactly once, by
\* the first input added, against that input; media_info is absent before
\* the first input, describes the first input once that probe has returned
\* a description, and never describes another input.
C26_ProbedOnce ==
    (ctx # Nothing /\ ~ctx.prevent_auto_probing) =>
        IF ctx.input_files = <<>>
        THEN AutoProbes = <<>> /\ ctx.media_info = None
        ELSE /\ Len(AutoProbes) = 1 /\ AutoProbes[1].by = 1
             /\ AutoProbes[1].raised = "" => ctx.media_info # None
             /\ ctx.media_info # None =>
                   ctx.media_info.filepath = ctx.input_files[1]

C26_Witness ==
    /\ ctx # Nothing /\ ~ctx.prevent_auto_probing
    /\ Len(ctx.input_files) = 2 /\ ctx.input_files[1] # ctx.input_files[2]
    /\ Len(AutoProbes) = 1 /\ AutoProbes[1].raised = ""
    /\ ctx.media_info # None /\ ctx.media_info.filepath = ctx.input_files[1]

(* ------------------------------------------- claims on the encoder, again *)
\* C31: the output file is deleted only by cancel(), in its step that follows
\* the termination request (terminate(), then kill() when that raised);
\* no step of start() deletes it, and when the state is Error the file the
\* process opened is still there.
C31_OnlyCancelDeletes ==
    [][ /\ (outfile /\ ~outfile') => (cpc = "unlink" /\ pc' = pc)
        /\ (cpc # "unlink" /\ cpc' = "unlink") => cpc \in {"terminate", "kill"}
        /\ (state' = ERROR /\ opened') => outfile' ]_vars

\* cancel() has deleted the file the process had opened, after its signal
C31_Witness ==
    /\ opened /\ ~outfile /\ cpc = "idle"
    /\ signals # <<>>

\* C32: cancel() goes on to its termination request only when, at its test
\* of lines 298-299, a process exists and is running; signals are sent by
\* cancel() only; the graceful request comes first, the kill is attempted
\* only after the graceful request raised (no signal sent), and a graceful
\* request that succeeded is followed by no kill.
C32_GracefulFirst ==
    [][ /\ (cpc # "terminate" /\ cpc' = "terminate") =>
              (cpc = "poll" /\ has_ffmpeg /\ proc = "running")
        /\ signals' # signals =>
              \/ cpc = "terminate" /\ signals' = Append(signals, "terminate")
              \/ cpc = "kill" /\ signals' = Append(signals, "kill")
        /\ (cpc # "kill" /\ cpc' = "kill") =>
              (cpc = "terminate" /\ signals' = signals)
        /\ (cpc = "terminate" /\ signals' # signals) => cpc' = "unlink" ]_vars

\* the graceful request raised and the kill went through
C32_Witness ==
    /\ signals = <<"kill">> /\ cpc = "idle"
    /\ cancel_hit

\* C33: update_encoding_params changes the output option map only while the
\* state is Idle; in every other state a call leaves the map as it was.
C33_UpdateOnlyWhenIdle ==
    [][encoding_params' # encoding_params => state = IDLE]_vars

(* ----------------------------------------- claims on the streams, again *)
\* a sample aspect ratio that is no ratio: a text holding something else
\* than numerals and one separator, or a ratio with a zero denominator
Degenerate(text) ==
    \/ \E k \in 1..Len(text) : text[k] \notin Digits \cup {":", "/"}
    \/ \E i \in 1..Len(text) :
          RatioAt(text, i) /\ IntValue(SubSeq(text, i + 1, Len(text))) = 0

\* C34: with no display aspect ratio reported and a degenerate sample aspect
\* ratio, display_aspect_ratio is width / height in lowest terms for every
\* non-zero width and height, 720x576, 960x720 and 1440x1080 included.
C34_FallbackToSize ==
    Read("display_aspect_ratio") =>
        LET sar == raw_data.sample_aspect_ratio
            dar == props.value
        IN  (/\ ~raw_data.display_aspect_ratio.present
             /\ raw_data.width \notin {Absent, 0} /\ raw_data.height \notin {Absent, 0}
             /\ sar.present /\ Degenerate(sar.text)) =>
                /\ DOMAIN dar = {"num", "den"} /\ dar.den > 0
                /\ GCD(dar.num, dar.den) = 1
                /\ dar.num * raw_data.height = raw_data.width * dar.den

\* C40: the rotation of a video stream lies in [0, 360) for every report,
\* whether it comes from the rotate tag or from rotation side data.
C40_RotationInRange ==
    Read("rotation") => props.value \in 0..359

(* -------------------------------------- claims on the notifications *)
\* the finished-callback has reported success
Succeeded == finished # <<>> /\ finished[Len(finished)].success

\* C35: on an attempt that completes, the state change to Completed and the
\* final progress notification precede the finished-callback, and no
\* progress or state notification follows the finished-callback.
C35_CompletedOrder ==
    [][ /\ (~Succeeded /\ Succeeded') =>
              /\ state' = COMPLETED /\ history'[Len(history')] = COMPLETED
              /\ on_progress_cb =>
                    (progress' # <<>> /\ progress'[Len(progress')] = "final")
        /\ Succeeded => (history' = history /\ progress' = progress) ]_vars

\* C36: at each invocation of the finished-callback, success is true exactly
\* when the state is Completed, and an output description is handed over
\* exactly when success is true.
C36_SuccessIffCompleted ==
    [][ Len(finished') > Len(finished) =>
           LET call == finished'[Len(finished')]
           IN  /\ call.success <=> state' = COMPLETED
               /\ call.info <=> call.success ]_vars

\* C37: with no progress callback registered no handler is subscribed: the
\* state never becomes Encoding, the effective options are never captured
\* and the started-callback is never invoked, even after a line holding
\* "options:".
C37_NoHandlersWithoutProgress ==
    ~on_progress_cb =>
        /\ listeners = {}
        /\ ENCODING \notin Range(history) /\ state # ENCODING
        /\ options_used = NoOptions
        /\ started = 0

\* such an attempt has completed after the process wrote the options line
C37_Witness ==
    /\ ~on_progress_cb /\ marker_seen
    /\ pc = "returned" /\ state = COMPLETED
    /\ history = <<IDLE, PREPARING, COMPLETED>>

\* C39: the start time is recorded before the process is spawned: whenever
\* a process has been spawned the start time is set, and every progress tick
\* is handled with the start time set.
C39_StartTimeBeforeTicks ==
    [][ /\ proc' # "none" => start_time'
        /\ ticks' # ticks => start_time ]_vars

\* a tick has been handled and handed to the progress callback
C39_Witness ==
    /\ ticks = 1 /\ progress = <<"tick">>
    /\ start_time /\ spawns = 1

\* C38: the effective options are captured at most once and the
\* started-callback is invoked at most once in an attempt: once on_stderr
\* has captured the options it is detached, and a later line holding
\* "options:" changes neither the captured map nor the state.
C38_CapturedOnce ==
    [][ /\ started' <= 1
        /\ started = 1 =>
              /\ "stderr" \notin listeners
              /\ options_used' = options_used /\ started' = started
              /\ lines' # lines => state' = state ]_vars

\* a second line holding "options:" was written after the capture
C38_Witness ==
    /\ late_marker /\ started = 1
    /\ options_used = ParseOptions(OptionsLine.toks)
    /\ on_progress_cb

====
